---- MODULE Spec2Model ----
(***************************************************************************)
(* Model of observer-mcp.py: an append-only NDJSON event log shared by     *)
(* several server processes, each with its own in-memory session registry. *)
(*                                                                         *)
(* Conventions.  Python values are written as TLA+ values of one sort per  *)
(* field: scalars (str, float, None) are strings, with Python's None       *)
(* written None; JSON containers (lists, dicts) are sequences of strings,  *)
(* a dict being flattened to key, value, key, value, ..., with Python's    *)
(* None written NoneSeq.  No caller input is the string "None".            *)
(* uuid4 / token_hex draws are idealised as fresh: the n-th call of the    *)
(* run draws the n-th entry of the id tables.                              *)
(***************************************************************************)
EXTENDS Integers, Sequences, FiniteSets, TLC

\* ------------------------------------------------------------------ bounds
MaxCalls == 2       \* calls issued in a run of Spec
MaxWriterCalls == 3 \* calls issued in a run of SpecWriters
MaxSeqCalls == 2    \* calls issued in a run of SpecArgs
MaxClock == 1       \* seconds the wall clock advances during a run
MaxLogLen == 3      \* lines of the log a run of SpecQuery starts with
MaxQueries == 2     \* calls issued in a run of SpecQuery
MaxLiveCalls == 2   \* calls issued in a run of SpecLive

\* --------------------------------------------------------------- processes
Procs == {"p1", "p2"}
SoloProcs == {"p1"}

\* ------------------------------------------------------------ Python values
None == "None"
NoneSeq == <<"None">>

TruthyStr(s) == s \notin {None, ""}
TruthySeq(q) == q \notin {NoneSeq, <<>>}

\* Python's `a or b`
OrStr(a, b) == IF TruthyStr(a) THEN a ELSE b
OrSeq(a, b) == IF TruthySeq(a) THEN a ELSE b

\* ------------------------------------------------------------- id drawing
SessIds == <<"sess_01", "sess_02", "sess_03", "sess_04", "sess_05", "sess_06">>
ThrIds == <<"thr_01", "thr_02", "thr_03", "thr_04", "thr_05", "thr_06">>
EvtIds == <<"evt_01", "evt_02", "evt_03", "evt_04", "evt_05", "evt_06">>

\* the ordinal of the draw that produced an id
Ord(tbl, id) == CHOOSE n \in DOMAIN tbl : tbl[n] = id

\* ------------------------------------------------------------------ now_iso
now_iso_backwards(t) == [secs |-> MaxClock + 1 - t, z |-> "Z"]

now_iso(t) == [secs |-> t, z |-> "Z"]

\* -------------------------------------------------------------------- KINDS
KINDS_open == {"submission", "verify", "feedback", "hint", "note", "reflection",
               "state", "metric", "bogus"}

KINDS == {"submission", "verify", "feedback", "hint", "note", "reflection",
          "state", "metric"}

\* sorted(KINDS)
SortedKinds == <<"feedback", "hint", "metric", "note", "reflection", "state",
                 "submission", "verify">>

\* ------------------------------------------------------------ error results
NoActiveSessionError ==
    [error |-> <<"No active session. Call bootstrap_session first or pass session_id.">>]

InvalidKindError(kind) ==
    [error |-> <<"Invalid kind '", kind, "'. Must be one of ">> \o SortedKinds \o <<".">>]

\* ------------------------------------------------------- the log file's text
\* json.dumps / json.loads of an event: a JSON text and the object it denotes
json_dumps(obj) == [json |-> obj]
json_loads(s) == s.json

\* The file is the sequence of the pieces of text that reached it.  A piece is
\* a whole line (text and its newline), the head of a line (a proper prefix of
\* the text) or the tail of a line (the rest of the text and the newline).
WholeOf(obj) == [text |-> json_dumps(obj), part |-> "whole"]
HeadOf(obj) == [text |-> json_dumps(obj), part |-> "head"]
TailOf(obj) == [text |-> json_dumps(obj), part |-> "tail"]

Max(a, b) == IF a >= b THEN a ELSE b
Min(a, b) == IF a <= b THEN a ELSE b

\* `for line in f`: the file cut after each newline; what follows the last
\* newline is a line too
EndsLine(piece) == piece.part \in {"whole", "tail"}

\* the lines of chunks[i..], cur being the text read since the last newline
RECURSIVE ReadFrom(_, _, _)
ReadFrom(chunks, i, cur) ==
    IF i > Len(chunks) THEN (IF cur = <<>> THEN <<>> ELSE <<cur>>)
    ELSE IF EndsLine(chunks[i])
         THEN <<Append(cur, chunks[i])>> \o ReadFrom(chunks, i + 1, <<>>)
         ELSE ReadFrom(chunks, i + 1, Append(cur, chunks[i]))

ReadLines(chunks) == ReadFrom(chunks, 1, <<>>)

\* json.loads(line.strip()): the event, or JSONDecodeError when the line is not
\* the text of one object
IsJson(raw) ==
    \/ Len(raw) = 1 /\ raw[1].part = "whole"
    \/ Len(raw) = 2 /\ raw[1].part = "head" /\ raw[2].part = "tail"
                    /\ raw[1].text = raw[2].text

Decode(raw) ==
    IF IsJson(raw) THEN [ok |-> TRUE, ev |-> json_loads(raw[1].text)]
    ELSE [ok |-> FALSE]

\* _iter_events: what the generator yields, item by item; an item that is not
\* ok raises when the consumer reaches it
_iter_events_unguarded(exists, chunks) ==
    IF ~exists THEN <<[ok |-> FALSE]>>
    ELSE LET raw == ReadLines(chunks) IN [i \in 1..Len(raw) |-> Decode(raw[i])]

_iter_events(exists, chunks) ==
    IF ~exists THEN <<>>
    ELSE LET raw == ReadLines(chunks) IN [i \in 1..Len(raw) |-> Decode(raw[i])]

\* ------------------------------------------------------------ list_events
NoneIso == [secs |-> 0, z |-> "None"]
EmptyIso == [secs |-> 0, z |-> "empty"]
NoneDt == -1
LimitCap == 2000
DefaultLimit == 200

parse_ts(s) == IF s.z \in {"None", "empty"} THEN NoneDt ELSE s.secs

SeqToSet(q) == {q[i] : i \in 1..Len(q)}

MatchesStrictSince(ev, a) ==
    LET ts_since == parse_ts(a.since)
        ts_until == parse_ts(a.until)
        kinds_set == SeqToSet(OrSeq(a.kinds, <<>>))
        ts == ev.ts.secs
    IN  /\ ~(TruthyStr(a.session_id) /\ ev.session_id # a.session_id)
        /\ ~(TruthyStr(a.activity_id) /\ ev.activity_id # a.activity_id)
        /\ ~(TruthyStr(a.thread_id) /\ ev.thread_id # a.thread_id)
        /\ ~(kinds_set # {} /\ ev.kind \notin kinds_set)
        /\ ~(ts_since # NoneDt /\ ts <= ts_since)
        /\ ~(ts_until # NoneDt /\ ts > ts_until)

\* the filters of the scan loop: an event that meets no `continue`
Matches(ev, a) ==
    LET ts_since == parse_ts(a.since)
        ts_until == parse_ts(a.until)
        kinds_set == SeqToSet(OrSeq(a.kinds, <<>>))
        ts == ev.ts.secs
    IN  /\ ~(TruthyStr(a.session_id) /\ ev.session_id # a.session_id)
        /\ ~(TruthyStr(a.activity_id) /\ ev.activity_id # a.activity_id)
        /\ ~(TruthyStr(a.thread_id) /\ ev.thread_id # a.thread_id)
        /\ ~(kinds_set # {} /\ ev.kind \notin kinds_set)
        /\ ~(ts_since # NoneDt /\ ts < ts_since)
        /\ ~(ts_until # NoneDt /\ ts > ts_until)

\* max(1, min(limit, 2000))
EffectiveLimitOffByOne(limit) == Max(1, Min(limit, LimitCap)) + 1

EffectiveLimit(limit) == Max(1, Min(limit, LimitCap))

RECURSIVE Scan(_, _, _, _)
Scan(items, i, out, a) ==
    IF i > Len(items) THEN [status |-> "returned", ret |-> out]
    ELSE IF ~items[i].ok THEN [status |-> "raised", ret |-> out]
    ELSE IF ~Matches(items[i].ev, a) THEN Scan(items, i + 1, out, a)
    ELSE LET out2 == Append(out, items[i].ev)
         IN  IF Len(out2) >= EffectiveLimit(a.limit)
             THEN [status |-> "returned", ret |-> out2]
             ELSE Scan(items, i + 1, out2, a)

list_events_scan(exists, chunks, a) == Scan(_iter_events(exists, chunks), 1, <<>>, a)

\* ------------------------------------------------------------------- state
VARIABLES
    log,                 \* the text of LOG_PATH, piece by piece
    logExists,           \* LOG_PATH.exists()
    lockHolder,          \* the process holding FileLock(LOCK_PATH), or None
    clock,               \* datetime.utcnow(), in seconds
    _ACTIVE_SESSION_ID,  \* per process
    _PRIVATE_CTX,        \* per process: session id -> private context
    pc,                  \* per process: where its current call stands
    call,                \* per process: the frame of its current or last call
    ncalls,              \* calls invoked so far, in all processes
    budget,              \* calls the run may still invoke
    returned             \* the _append_line calls that returned, in order

vars == <<log, logExists, lockHolder, clock, _ACTIVE_SESSION_ID, _PRIVATE_CTX,
          pc, call, ncalls, budget, returned>>

EmptyDict == [k \in {} |-> None]

\* d[k] = v on a dict
DictSet(d, k, v) == [x \in DOMAIN d \cup {k} |-> IF x = k THEN v ELSE d[x]]

NoFrame == [n |-> 0, op |-> "none", status |-> "none"]

\* ------------------------------------------------- _load_private_context
FallbackCtx == [user_id |-> "user_demo", ourn |-> "sql_10min_intro", cohort |-> "pilot"]

\* what CONTEXT_PATH holds: nothing, an unreadable file, text that is not JSON,
\* a JSON document that is not an object, or a JSON object
FileCtx == [user_id |-> "u1", ourn |-> "o1", cohort |-> "beta"]
FileCtxReserved == [user_id |-> "u2", session_id |-> "sess_file", ts |-> "t_file"]

ContextSources ==
    {[state |-> "absent"], [state |-> "unreadable"], [state |-> "not_json"],
     [state |-> "not_object"],
     [state |-> "object", content |-> FileCtx],
     [state |-> "object", content |-> FileCtxReserved]}

_load_private_context(src) ==
    CASE src.state = "object" -> [mapping |-> TRUE, d |-> src.content]
      [] src.state = "not_object" -> [mapping |-> FALSE]
      [] OTHER -> [mapping |-> TRUE, d |-> FallbackCtx]

\* ------------------------------------------------------- session resolution
\* sid = session_id or _ACTIVE_SESSION_ID
SidActiveFirst(session_id, activeId) == OrStr(activeId, session_id)
SidOrDefault(session_id, activeId) == OrStr(OrStr(session_id, activeId), "sess_default")

Sid(session_id, activeId) == OrStr(session_id, activeId)

\* _ACTIVE_SESSION_ID = session_id
KeepFirstActive(old, session_id) == OrStr(old, session_id)

SetActive(old, session_id) == session_id

\* -------------------------------------------------------------- the events
SessionStartEventLeaky(n, t, session_id) ==
    [id |-> EvtIds[n], ts |-> now_iso(t), actor |-> "system",
     session_id |-> session_id, activity_id |-> None, thread_id |-> None,
     kind |-> "state", tags |-> <<"session_start">>, data |-> <<"user_id", "user_demo">>]

SessionStartEvent(n, t, session_id) ==
    [id |-> EvtIds[n], ts |-> now_iso(t), actor |-> "system",
     session_id |-> session_id, activity_id |-> None, thread_id |-> None,
     kind |-> "state", tags |-> <<"session_start">>, data |-> <<"meta", "started">>]

ThreadStartEvent(n, t, sid, thread_id, a) ==
    [id |-> EvtIds[n], ts |-> now_iso(t), actor |-> "system",
     session_id |-> sid, activity_id |-> a.activity_id, thread_id |-> thread_id,
     kind |-> "state", tags |-> <<"thread_start">>,
     data |-> <<"metadata">> \o OrSeq(a.metadata, <<>>)]

ObservationEventRawActor(n, t, sid, a) ==
    [id |-> EvtIds[n], ts |-> now_iso(t), actor |-> a.actor,
     session_id |-> sid, activity_id |-> a.activity_id, thread_id |-> a.thread_id,
     kind |-> a.kind, tags |-> OrSeq(a.tags, <<>>), data |-> a.data,
     confidence |-> a.confidence, supersedes |-> a.supersedes]

ObservationEvent(n, t, sid, a) ==
    [id |-> EvtIds[n], ts |-> now_iso(t), actor |-> OrStr(a.actor, "llm"),
     session_id |-> sid, activity_id |-> a.activity_id, thread_id |-> a.thread_id,
     kind |-> a.kind, tags |-> OrSeq(a.tags, <<>>), data |-> a.data,
     confidence |-> a.confidence, supersedes |-> a.supersedes]

\* bootstrap_session's exposed_payload: for k in expose or []
RECURSIVE Exposed(_, _, _)
Exposed(payload, keys, stored) ==
    IF keys = <<>> THEN payload
    ELSE LET k == Head(keys)
         IN  Exposed(IF k \in DOMAIN stored THEN DictSet(payload, k, stored[k])
                     ELSE payload,
                     Tail(keys), stored)

\* ------------------------------------------------------------ _append_line
\* LOG_PATH.open("a"): text is added at the end of the file
TruncateText(chunks, piece) == <<piece>>
PrependText(chunks, piece) == <<piece>> \o chunks

AppendText(chunks, piece) == Append(chunks, piece)

\* FileLock(LOCK_PATH) can be taken when no process holds it
LockIgnored(holder) == TRUE

LockFree(holder) == holder = None

\* leaving `with FileLock(...)`, by return or by exception, releases the lock
ReleaseLeak(holder) == holder

Release(holder) == None

\* what the tool returns once _append_line has returned
ReturnValue(p) ==
    LET f == call[p]
    IN  CASE f.op = "bootstrap_session" ->
               Exposed(DictSet(EmptyDict, "session_id", f.session_id),
                       OrSeq(f.args.expose, <<>>),
                       _PRIVATE_CTX[p][f.session_id])
          [] f.op = "start_thread" ->
               [session_id |-> f.sid, thread_id |-> f.thread_id, event |-> f.ev]
          [] OTHER -> f.ev

\* the call of process p ends with an exception
Raise(p) ==
    /\ call' = [call EXCEPT ![p] = [@ EXCEPT !.status = "raised"]]
    /\ pc' = [pc EXCEPT ![p] = "idle"]

\* with FileLock(str(LOCK_PATH)): the lock is acquired
AcquireLock(p) ==
    /\ pc[p] = "lock"
    /\ LockFree(lockHolder)
    /\ lockHolder' = p
    /\ pc' = [pc EXCEPT ![p] = "open"]
    /\ UNCHANGED <<log, logExists, clock, _ACTIVE_SESSION_ID, _PRIVATE_CTX, call,
                   ncalls, budget, returned>>

\* mkdir or the lock acquisition raises: the call ends without the lock
LockFails(p) ==
    /\ pc[p] = "lock"
    /\ Raise(p)
    /\ UNCHANGED <<log, logExists, lockHolder, clock, _ACTIVE_SESSION_ID,
                   _PRIVATE_CTX, ncalls, budget, returned>>

\* the `with` blocks are left after the write: the file is closed, the lock is
\* released, _append_line returns obj and the tool returns
Leave(p) ==
    /\ lockHolder' = Release(lockHolder)
    /\ returned' = Append(returned, [ev |-> call[p].ev, proc |-> p, at |-> ncalls])
    /\ call' = [call EXCEPT ![p] =
           DictSet([@ EXCEPT !.status = "returned"], "ret", ReturnValue(p))]
    /\ pc' = [pc EXCEPT ![p] = "idle"]

\* open("a"), f.write(json.dumps(obj) + "\n"), close: the line reaches the file
\* in one piece
WriteLine(p) ==
    /\ pc[p] = "open"
    /\ log' = AppendText(log, WholeOf(call[p].ev))
    /\ logExists' = TRUE
    /\ Leave(p)
    /\ UNCHANGED <<clock, _ACTIVE_SESSION_ID, _PRIVATE_CTX, ncalls, budget>>

\* ... or in two: readers take no lock, and nothing makes the file grow by a
\* whole line at once (the write is copied into the file page by page)
WriteHead(p) ==
    /\ pc[p] = "open"
    /\ log' = AppendText(log, HeadOf(call[p].ev))
    /\ logExists' = TRUE
    /\ pc' = [pc EXCEPT ![p] = "tail"]
    /\ UNCHANGED <<lockHolder, clock, _ACTIVE_SESSION_ID, _PRIVATE_CTX, call,
                   ncalls, budget, returned>>

WriteTail(p) ==
    /\ pc[p] = "tail"
    /\ log' = AppendText(log, TailOf(call[p].ev))
    /\ Leave(p)
    /\ UNCHANGED <<logExists, clock, _ACTIVE_SESSION_ID, _PRIVATE_CTX, ncalls, budget>>

\* open or write raises before any text reaches the file: the `with` blocks
\* release the lock and the exception leaves the tool.  (A file that open()
\* created and that holds no text reads like a file that does not exist.)
WriteFails(p) ==
    /\ pc[p] = "open"
    /\ lockHolder' = Release(lockHolder)
    /\ Raise(p)
    /\ UNCHANGED <<log, logExists, clock, _ACTIVE_SESSION_ID, _PRIVATE_CTX, ncalls,
                   budget, returned>>

\* ------------------------------------------------------------------- tools
\* a call is invoked: the wall clock has not gone back since the last one (it is
\* read nowhere but in the tools' first lines)
Invoke ==
    /\ ncalls' = ncalls + 1
    /\ budget' = budget - 1
    /\ \E t \in clock..MaxClock : clock' = t

bootstrap_session(p, a) ==
    /\ pc[p] = "idle"
    /\ budget > 0
    /\ Invoke
    /\ LET n == ncalls + 1
           private_ctx == _load_private_context(a.source)
           session_id == SessIds[n]
       IN  IF ~private_ctx.mapping
           THEN \* {**private_ctx, ...} raises TypeError
                /\ call' = [call EXCEPT ![p] =
                       [n |-> n, op |-> "bootstrap_session", args |-> a,
                        status |-> "raised"]]
                /\ UNCHANGED <<_PRIVATE_CTX, _ACTIVE_SESSION_ID, pc>>
           ELSE /\ _PRIVATE_CTX' = [_PRIVATE_CTX EXCEPT ![p] =
                       DictSet(@, session_id,
                               DictSet(private_ctx.d, "ts", now_iso(clock')))]
                /\ _ACTIVE_SESSION_ID' = [_ACTIVE_SESSION_ID EXCEPT ![p] =
                       SetActive(@, session_id)]
                /\ call' = [call EXCEPT ![p] =
                       [n |-> n, op |-> "bootstrap_session", args |-> a,
                        status |-> "running", session_id |-> session_id,
                        ev |-> SessionStartEvent(n, clock', session_id)]]
                /\ pc' = [pc EXCEPT ![p] = "lock"]
    /\ UNCHANGED <<log, logExists, lockHolder, returned>>

start_thread(p, a) ==
    /\ pc[p] = "idle"
    /\ budget > 0
    /\ Invoke
    /\ LET n == ncalls + 1
           sid == Sid(a.session_id, _ACTIVE_SESSION_ID[p])
           thread_id == ThrIds[n]
       IN  IF ~TruthyStr(sid)
           THEN /\ call' = [call EXCEPT ![p] =
                       [n |-> n, op |-> "start_thread", args |-> a,
                        status |-> "returned", ret |-> NoActiveSessionError]]
                /\ UNCHANGED pc
           ELSE /\ call' = [call EXCEPT ![p] =
                       [n |-> n, op |-> "start_thread", args |-> a,
                        status |-> "running", sid |-> sid, thread_id |-> thread_id,
                        ev |-> ThreadStartEvent(n, clock', sid, thread_id, a)]]
                /\ pc' = [pc EXCEPT ![p] = "lock"]
    /\ UNCHANGED <<log, logExists, lockHolder, _ACTIVE_SESSION_ID,
                   _PRIVATE_CTX, returned>>

append_event(p, a) ==
    /\ pc[p] = "idle"
    /\ budget > 0
    /\ Invoke
    /\ LET n == ncalls + 1
           sid == Sid(a.session_id, _ACTIVE_SESSION_ID[p])
       IN  IF ~TruthyStr(sid)
           THEN /\ call' = [call EXCEPT ![p] =
                       [n |-> n, op |-> "append_event", args |-> a,
                        status |-> "returned", ret |-> NoActiveSessionError]]
                /\ UNCHANGED pc
           ELSE IF a.kind \notin KINDS
           THEN /\ call' = [call EXCEPT ![p] =
                       [n |-> n, op |-> "append_event", args |-> a,
                        status |-> "returned", ret |-> InvalidKindError(a.kind)]]
                /\ UNCHANGED pc
           ELSE /\ call' = [call EXCEPT ![p] =
                       [n |-> n, op |-> "append_event", args |-> a,
                        status |-> "running", sid |-> sid,
                        ev |-> ObservationEvent(n, clock', sid, a)]]
                /\ pc' = [pc EXCEPT ![p] = "lock"]
    /\ UNCHANGED <<log, logExists, lockHolder, _ACTIVE_SESSION_ID,
                   _PRIVATE_CTX, returned>>

list_events(p, a) ==
    /\ pc[p] = "idle"
    /\ budget > 0
    /\ Invoke
    /\ LET n == ncalls + 1
           r == list_events_scan(logExists, log, a)
       IN  call' = [call EXCEPT ![p] =
               [n |-> n, op |-> "list_events", args |-> a,
                status |-> r.status, ret |-> r.ret]]
    /\ UNCHANGED <<log, logExists, lockHolder, _ACTIVE_SESSION_ID,
                   _PRIVATE_CTX, pc, returned>>

\* ------------------------------------------------------------- the inputs
BaseAppendArgs ==
    [activity_id |-> "act1", thread_id |-> "thr_x", kind |-> "note",
     data |-> <<"answer", "42">>, tags |-> NoneSeq, actor |-> None,
     confidence |-> None, supersedes |-> None, session_id |-> None]

BaseListArgs ==
    [session_id |-> None, activity_id |-> None, thread_id |-> None,
     kinds |-> NoneSeq, since |-> NoneIso, until |-> NoneIso, limit |-> DefaultLimit]

\* Spec: several processes, few inputs
BootArgs == {[source |-> [state |-> "absent"], expose |-> NoneSeq]}
ThreadArgs == {[activity_id |-> "act1", session_id |-> None, metadata |-> NoneSeq]}
AppendArgs == {[BaseAppendArgs EXCEPT !.session_id = "sess_ext"]}
ListArgs == {BaseListArgs}

Init ==
    /\ log = <<>>
    /\ logExists = FALSE
    /\ lockHolder = None
    /\ clock = 0
    /\ _ACTIVE_SESSION_ID = [p \in Procs |-> None]
    /\ _PRIVATE_CTX = [p \in Procs |-> EmptyDict]
    /\ pc = [p \in Procs |-> "idle"]
    /\ call = [p \in Procs |-> NoFrame]
    /\ ncalls = 0
    /\ budget = MaxCalls
    /\ returned = <<>>

\* The processes run the same program: the run's first call is named p1's.
Callers == IF ncalls = 0 THEN SoloProcs ELSE Procs

Next ==
    \/ \E p \in Callers, a \in BootArgs : bootstrap_session(p, a)
    \/ \E p \in Callers, a \in ThreadArgs : start_thread(p, a)
    \/ \E p \in Callers, a \in AppendArgs : append_event(p, a)
    \/ \E p \in Callers, a \in ListArgs : list_events(p, a)
    \/ \E p \in Procs : AcquireLock(p)
    \/ \E p \in Procs : LockFails(p)
    \/ \E p \in Procs : WriteLine(p)
    \/ \E p \in Procs : WriteHead(p)
    \/ \E p \in Procs : WriteTail(p)
    \/ \E p \in Procs : WriteFails(p)

Spec == Init /\ [][Next]_vars

\* SpecWriters: several processes that only write (no list_events), so that
\* longer runs of overlapping _append_line calls are covered
InitWriters ==
    /\ log = <<>>
    /\ logExists = FALSE
    /\ lockHolder = None
    /\ clock = 0
    /\ _ACTIVE_SESSION_ID = [p \in Procs |-> None]
    /\ _PRIVATE_CTX = [p \in Procs |-> EmptyDict]
    /\ pc = [p \in Procs |-> "idle"]
    /\ call = [p \in Procs |-> NoFrame]
    /\ ncalls = 0
    /\ budget = MaxWriterCalls
    /\ returned = <<>>

NextWriters ==
    \/ \E p \in Callers, a \in BootArgs : bootstrap_session(p, a)
    \/ \E p \in Callers, a \in AppendArgs : append_event(p, a)
    \/ \E p \in Procs : AcquireLock(p)
    \/ \E p \in Procs : LockFails(p)
    \/ \E p \in Procs : WriteLine(p)
    \/ \E p \in Procs : WriteHead(p)
    \/ \E p \in Procs : WriteTail(p)
    \/ \E p \in Procs : WriteFails(p)

SpecWriters == InitWriters /\ [][NextWriters]_vars

\* SpecLive: the writers of SpecWriters under fair scheduling.  A process that
\* is inside _append_line goes on running (its write and its leaving the
\* `with` blocks happen), and FileLock's polling loop takes a lock that stays
\* free.
InitLive ==
    /\ log = <<>>
    /\ logExists = FALSE
    /\ lockHolder = None
    /\ clock = 0
    /\ _ACTIVE_SESSION_ID = [p \in Procs |-> None]
    /\ _PRIVATE_CTX = [p \in Procs |-> EmptyDict]
    /\ pc = [p \in Procs |-> "idle"]
    /\ call = [p \in Procs |-> NoFrame]
    /\ ncalls = 0
    /\ budget = MaxLiveCalls
    /\ returned = <<>>

Fairness ==
    \A p \in Procs :
        /\ WF_vars(AcquireLock(p))
        /\ WF_vars(WriteLine(p) \/ WriteHead(p) \/ WriteFails(p))
        /\ WF_vars(WriteTail(p))

SpecLive == InitLive /\ [][NextWriters]_vars /\ Fairness

BootArgsWide ==
    {[source |-> src, expose |-> NoneSeq] : src \in ContextSources}
    \cup {[source |-> [state |-> "object", content |-> FileCtx], expose |-> e] :
            e \in {<<>>, <<"cohort">>, <<"cohort", "nope">>, <<"ts">>}}
    \cup {[source |-> [state |-> "object", content |-> FileCtxReserved],
           expose |-> <<"session_id", "user_id">>]}

ThreadArgsWide ==
    LET base == [activity_id |-> "act1", session_id |-> None, metadata |-> NoneSeq]
    IN  {base}
        \cup {[base EXCEPT !.session_id = x] : x \in {"", "sess_ext"}}
        \cup {[base EXCEPT !.metadata = x] : x \in {<<>>, <<"attempt", "1">>}}

AppendArgsWide ==
    {[BaseAppendArgs EXCEPT !.kind = k] : k \in KINDS \cup {"bogus", ""}}
    \cup {[BaseAppendArgs EXCEPT !.session_id = x] : x \in {"", "sess_ext"}}
    \cup {[BaseAppendArgs EXCEPT !.session_id = "sess_ext", !.kind = "bogus"]}
    \cup {[BaseAppendArgs EXCEPT !.actor = x] : x \in {"", "tutor"}}
    \cup {[BaseAppendArgs EXCEPT !.tags = x] : x \in {<<>>, <<"retry", "retry">>}}
    \cup {[BaseAppendArgs EXCEPT !.data = x] : x \in {NoneSeq, <<>>}}
    \cup {[BaseAppendArgs EXCEPT !.confidence = "0.9", !.supersedes = "evt_prev"]}

ListArgsWide == {BaseListArgs, [BaseListArgs EXCEPT !.limit = 1]}

InitArgs ==
    /\ log = <<>>
    /\ logExists = FALSE
    /\ lockHolder = None
    /\ clock = 0
    /\ _ACTIVE_SESSION_ID = [p \in Procs |-> None]
    /\ _PRIVATE_CTX = [p \in Procs |-> EmptyDict]
    /\ pc = [p \in Procs |-> "idle"]
    /\ call = [p \in Procs |-> NoFrame]
    /\ ncalls = 0
    /\ budget = MaxSeqCalls
    /\ returned = <<>>

NextArgs ==
    \/ \E p \in SoloProcs, a \in BootArgsWide : bootstrap_session(p, a)
    \/ \E p \in SoloProcs, a \in ThreadArgsWide : start_thread(p, a)
    \/ \E p \in SoloProcs, a \in AppendArgsWide : append_event(p, a)
    \/ \E p \in SoloProcs, a \in ListArgsWide : list_events(p, a)
    \/ \E p \in SoloProcs : AcquireLock(p)
    \/ \E p \in SoloProcs : LockFails(p)
    \/ \E p \in SoloProcs : WriteLine(p)
    \/ \E p \in SoloProcs : WriteHead(p)
    \/ \E p \in SoloProcs : WriteTail(p)
    \/ \E p \in SoloProcs : WriteFails(p)

SpecArgs == InitArgs /\ [][NextArgs]_vars

\* SpecQuery: one process that reads a log written earlier.  The log is any
\* sequence of up to MaxLogLen whole lines, each one of a few events built as
\* the tools build them; the calls draw the filters of list_events.
PoolEvents(n) ==
    {ObservationEvent(n, 0, "sess_ext", BaseAppendArgs),
     ObservationEvent(n, 1, "sess_ext", BaseAppendArgs),
     ObservationEvent(n, 1, "sess_ext", [BaseAppendArgs EXCEPT !.kind = "metric"]),
     ObservationEvent(n, 1, "sess_b",
         [BaseAppendArgs EXCEPT !.activity_id = "act2", !.thread_id = "thr_y"]),
     SessionStartEvent(n, 0, SessIds[n])}

RECURSIVE LogsOfLen(_)
LogsOfLen(len) ==
    IF len = 0 THEN {<<>>}
    ELSE {AppendText(l, WholeOf(e)) : l \in LogsOfLen(len - 1), e \in PoolEvents(len)}

QueryArgs ==
    {BaseListArgs}
    \cup {[BaseListArgs EXCEPT !.session_id = x] : x \in {"", "sess_ext"}}
    \cup {[BaseListArgs EXCEPT !.activity_id = "act2"],
          [BaseListArgs EXCEPT !.thread_id = "thr_y"]}
    \cup {[BaseListArgs EXCEPT !.kinds = x] :
            x \in {<<>>, <<"note">>, <<"note", "metric">>}}
    \cup {[BaseListArgs EXCEPT !.since = x] : x \in {EmptyIso, now_iso(1)}}
    \cup {[BaseListArgs EXCEPT !.until = now_iso(0)],
          [BaseListArgs EXCEPT !.since = now_iso(1), !.until = now_iso(1)],
          [BaseListArgs EXCEPT !.session_id = "sess_ext", !.kinds = <<"note">>],
          [BaseListArgs EXCEPT !.kinds = <<"note">>, !.since = now_iso(1)],
          [BaseListArgs EXCEPT !.session_id = "sess_ext", !.kinds = <<"note">>,
                               !.until = now_iso(0)],
          [BaseListArgs EXCEPT !.activity_id = "act2", !.since = now_iso(1)]}
    \cup {[BaseListArgs EXCEPT !.limit = x] : x \in {0 - 1, 0, 1, 2, 5000}}
    \cup {[BaseListArgs EXCEPT !.kinds = <<"note">>, !.limit = x] : x \in {1, 2}}

InitQuery ==
    /\ log \in UNION {LogsOfLen(len) : len \in 0..MaxLogLen}
    /\ logExists = (log # <<>>)
    /\ lockHolder = None
    /\ clock = MaxClock
    /\ _ACTIVE_SESSION_ID = [p \in Procs |-> None]
    /\ _PRIVATE_CTX = [p \in Procs |-> EmptyDict]
    /\ pc = [p \in Procs |-> "idle"]
    /\ call = [p \in Procs |-> NoFrame]
    /\ ncalls = Len(log)
    /\ budget = MaxQueries
    /\ returned = <<>>

NextQuery == \E p \in SoloProcs, a \in QueryArgs : list_events(p, a)

SpecQuery == InitQuery /\ [][NextQuery]_vars

\* ================================================================== claims
\* what a reader that reads the whole file now would be given, line by line
Lines == _iter_events(logExists, log)
WholeLines == {i \in 1..Len(Lines) : Lines[i].ok}
AllIdle == \A p \in Procs : pc[p] = "idle"
IsPrefix(s, t) == Len(s) <= Len(t) /\ SubSeq(t, 1, Len(s)) = s
\* the events of the whole lines of a file, in file order
RECURSIVE EventsOf(_)
EventsOf(items) ==
    IF items = <<>> THEN <<>>
    ELSE IF Head(items).ok THEN <<Head(items).ev>> \o EventsOf(Tail(items))
    ELSE EventsOf(Tail(items))
\* the call that drew an event id, counted from the run's first call
CallOf(ev) == Ord(EvtIds, ev.id)
\* process p invokes a tool in this step
Invokes(p) == call'[p].n # call[p].n
HasEvent(f) == "ev" \in DOMAIN f

\* C1: the log is write-once.  Every step, of any tool in any process and
\* whether it ends in a result, an error result or an exception, leaves the
\* text that was in the file in place: the file after the step starts with the
\* file before the step, and so do its whole lines.
C1_WriteOnce ==
    [][/\ IsPrefix(log, log')
       /\ IsPrefix(EventsOf(_iter_events(TRUE, log)), EventsOf(_iter_events(TRUE, log')))
       /\ (logExists => logExists')]_vars

\* a line in the file, and after it a call that ended in an exception or in
\* an error result
C1_Witness ==
    /\ Len(EventsOf(Lines)) >= 1
    /\ \E p \in Procs :
          /\ call[p].n = 2
          /\ \/ call[p].status = "raised"
             \/ /\ call[p].status = "returned"
                /\ call[p].op = "start_thread"
                /\ call[p].ret = NoActiveSessionError

\* C2: once every appender has finished, the file holds exactly one whole line
\* for each _append_line call that returned, each the text of the record that
\* call was given, and no line that is torn or merged.
C2_NoLostOrTornLines ==
    AllIdle =>
        LET ls == Lines
            evs == EventsOf(ls)
        IN  /\ Len(evs) = Len(ls)
            /\ Len(ls) = Len(returned)
            /\ \A k \in 1..Len(returned) :
                  Cardinality({i \in 1..Len(evs) : evs[i] = returned[k].ev}) = 1

\* two appenders in different processes, both inside their calls at once
C2_Witness ==
    /\ AllIdle
    /\ \E i, j \in 1..Len(returned) :
          /\ returned[i].proc # returned[j].proc
          /\ returned[i].at >= CallOf(returned[j].ev)
          /\ returned[j].at >= CallOf(returned[i].ev)
    /\ \A i \in 1..Len(Lines) : Lines[i].ok

\* C3 (as claimed): a reader never comes upon a torn or partial line, so no
\* list_events call ends in json.loads failing on a line.
C3_ReadersSeeWholeLines ==
    \A p \in Procs : call[p].op = "list_events" => call[p].status = "returned"

\* C4 (as claimed): the lines are in the order in which their calls were
\* invoked.
C4_FileOrderIsInvocationOrder ==
    LET evs == EventsOf(Lines)
    IN  \A i, j \in 1..Len(evs) : CallOf(evs[i]) < CallOf(evs[j]) => i < j

\* C4 (amended): a call that returned before another was invoked has its line
\* before the other's; calls that overlap may be written in either order.
C4_FileOrderFollowsCompletion ==
    LET evs == EventsOf(Lines)
    IN  \A k \in 1..Len(returned) : \A j \in 1..Len(evs) :
           CallOf(evs[j]) > returned[k].at =>
               \E i \in 1..Len(evs) : i < j /\ evs[i] = returned[k].ev

\* a line of one process after the line of an earlier, finished call of another
C4_Witness ==
    LET evs == EventsOf(Lines)
    IN  \E k \in 1..Len(returned) : \E j \in 1..Len(evs) : \E m \in 1..Len(returned) :
           /\ CallOf(evs[j]) > returned[k].at
           /\ returned[m].ev = evs[j]
           /\ returned[m].proc # returned[k].proc

\* the process whose call wrote an event
ProcOf(ev) == LET ks == {k \in 1..Len(returned) : returned[k].ev = ev}
              IN  IF ks = {} THEN None ELSE returned[CHOOSE k \in ks : TRUE].proc

\* C5: with a clock that does not go back, the events of one writer, which
\* issues its calls one after another, have non-decreasing ts in file order: in
\* particular a file written by a single writer is in ts order.  (Events of
\* different writers need not be: C5_Witness is such a file.)
C5_PerWriterTsOrder ==
    LET evs == EventsOf(Lines)
        writer == [i \in 1..Len(evs) |-> ProcOf(evs[i])]
    IN  \A i, j \in 1..Len(evs) :
           (i < j /\ writer[i] = writer[j]) => evs[i].ts.secs <= evs[j].ts.secs

\* one writer's two events a second apart and in order, and between two
\* writers a later line with an earlier ts
C5_Witness ==
    LET evs == EventsOf(Lines)
    IN  /\ \E i, j \in 1..Len(evs) :
              i < j /\ ProcOf(evs[i]) = ProcOf(evs[j]) /\ evs[i].ts.secs < evs[j].ts.secs
        /\ \E i, j \in 1..Len(evs) :
              i < j /\ ProcOf(evs[i]) # ProcOf(evs[j]) /\ evs[i].ts.secs > evs[j].ts.secs

\* the fixed set of kinds, as the claims list it
ClaimedKinds == {"submission", "verify", "feedback", "hint", "note", "reflection",
                 "state", "metric"}
\* the session a call of p with arguments a is to use, None when there is none
Resolved(p, a) ==
    IF a.session_id \notin {None, ""} THEN a.session_id ELSE _ACTIVE_SESSION_ID[p]
EventFields == {"id", "ts", "actor", "session_id", "activity_id", "thread_id", "kind",
                "tags", "data", "confidence", "supersedes"}
\* the event an append_event call of p is to return and to have written, actor
\* being replaced by "llm" when it is one of `omitted`
C6_Returned(p, omitted) ==
    LET f == call[p]
        a == f.args
    IN  (/\ f.op = "append_event"
         /\ f.status = "returned"
         /\ a.kind \in ClaimedKinds
         /\ Resolved(p, a) # None) =>
            /\ DOMAIN f.ret = EventFields
            /\ f.ret = [id |-> EvtIds[f.n], ts |-> f.ret.ts,
                        actor |-> IF a.actor \in omitted THEN "llm" ELSE a.actor,
                        session_id |-> Resolved(p, a),
                        activity_id |-> a.activity_id, thread_id |-> a.thread_id,
                        kind |-> a.kind,
                        tags |-> IF a.tags = NoneSeq THEN <<>> ELSE a.tags,
                        data |-> a.data, confidence |-> a.confidence,
                        supersedes |-> a.supersedes]
            /\ f.ret.ts.z = "Z" /\ f.ret.ts.secs \in 0..clock
            /\ LET evs == EventsOf(Lines)
               IN  Cardinality({i \in 1..Len(evs) : evs[i] = f.ret}) = 1

\* C6 (as claimed): an append_event call with a kind of the fixed set and a
\* session that resolves returns the event it wrote, whose fields are the
\* inputs, tags being [] and actor "llm" when omitted (None).
C6_FieldsAsGiven == \A p \in Procs : C6_Returned(p, {None})

\* C6 (amended): ... actor being "llm" when omitted or empty.  Such a call is
\* never turned down, and the step in which it returns adds exactly one line,
\* the returned event, at the end of the file.
C6_OneLinePerAppend ==
    /\ [](\A p \in Procs : C6_Returned(p, {None, ""}))
    /\ [][\A p \in Procs :
          /\ (/\ Invokes(p)
              /\ call'[p].op = "append_event"
              /\ call'[p].args.kind \in ClaimedKinds
              /\ Resolved(p, call'[p].args) # None) =>
                 (call'[p].status = "running" /\ log' = log)
          /\ (/\ call[p].op = "append_event"
              /\ call[p].status = "running"
              /\ call'[p].status = "returned") =>
                 EventsOf(_iter_events(logExists', log')) =
                     Append(EventsOf(Lines), call'[p].ret)]_vars

C6_Witness ==
    \E p \in Procs :
        /\ call[p].op = "append_event"
        /\ call[p].status = "returned"
        /\ call[p].args.kind = "verify"
        /\ call[p].args.actor = None
        /\ call[p].args.tags = NoneSeq
        /\ Len(Lines) = 2
        /\ Lines[2].ok /\ Lines[2].ev = call[p].ret

\* an error result that names the offending kind and the allowed set
IsInvalidKindResult(r, kind) ==
    /\ DOMAIN r = {"error"}
    /\ r.error[1] = "Invalid kind '"
    /\ r.error[2] = kind
    /\ ClaimedKinds \subseteq SeqToSet(r.error)
    /\ "bogus" \notin SeqToSet(SubSeq(r.error, 3, Len(r.error)))

\* C7 (as claimed): append_event with a kind outside the fixed set returns an
\* invalid-kind error result, whatever the session registry holds.
C7_AlwaysInvalidKindError ==
    \A p \in Procs :
        (call[p].op = "append_event" /\ call[p].args.kind \notin ClaimedKinds) =>
            /\ call[p].status = "returned"
            /\ IsInvalidKindResult(call[p].ret, call[p].args.kind)

\* C7 (amended): append_event with a kind outside the fixed set appends no
\* line and returns at once with an error result: the invalid-kind error, which
\* names the kind and the allowed set, when a session resolves, and the
\* no-active-session error when none does.
C7_InvalidKindRejected ==
    [][\A p \in Procs :
          (/\ Invokes(p)
           /\ call'[p].op = "append_event"
           /\ call'[p].args.kind \notin ClaimedKinds) =>
              /\ log' = log /\ logExists' = logExists /\ returned' = returned
              /\ pc'[p] = "idle"
              /\ call'[p].status = "returned"
              /\ IF Resolved(p, call'[p].args) # None
                 THEN IsInvalidKindResult(call'[p].ret, call'[p].args.kind)
                 ELSE call'[p].ret = NoActiveSessionError]_vars

C7_Witness ==
    \E p \in Procs :
        /\ call[p].op = "append_event"
        /\ call[p].args.kind = "bogus"
        /\ _ACTIVE_SESSION_ID[p] # None
        /\ call[p].status = "returned"
        /\ IsInvalidKindResult(call[p].ret, "bogus")
        /\ Len(log) = 1

\* C8: with no active session and no session_id passed, append_event and
\* start_thread return the no-active-session error result, and the step changes
\* neither the log nor the registry.
C8_NoActiveSession ==
    [][\A p \in Procs :
          (/\ Invokes(p)
           /\ call'[p].op \in {"append_event", "start_thread"}
           /\ call'[p].args.session_id = None
           /\ _ACTIVE_SESSION_ID[p] = None) =>
              /\ call'[p].status = "returned"
              /\ call'[p].ret = NoActiveSessionError
              /\ pc'[p] = "idle"
              /\ log' = log /\ logExists' = logExists /\ returned' = returned
              /\ _ACTIVE_SESSION_ID' = _ACTIVE_SESSION_ID
              /\ _PRIVATE_CTX' = _PRIVATE_CTX]_vars

\* start_thread turned down as the second call of a process that never
\* bootstrapped, and nothing in the log
C8_Witness ==
    \E p \in Procs :
        /\ call[p].op = "start_thread"
        /\ call[p].n = 2
        /\ call[p].args.session_id = None
        /\ call[p].status = "returned"
        /\ call[p].ret = NoActiveSessionError
        /\ _ACTIVE_SESSION_ID[p] = None
        /\ log = <<>>

SessionTools == {"start_thread", "append_event"}
TurnedDownForKind(f) == f.op = "append_event" /\ f.args.kind \notin ClaimedKinds

\* C9 (as claimed): whenever a session_id is given (is not None), the event of
\* start_thread / append_event carries that session_id.
C9_ExplicitAlwaysUsed ==
    \A p \in Procs :
        (/\ call[p].op \in SessionTools
         /\ call[p].args.session_id # None
         /\ ~TurnedDownForKind(call[p])) =>
            (HasEvent(call[p]) /\ call[p].ev.session_id = call[p].args.session_id)

\* C9 (amended): the session_id written and returned is the explicit session_id
\* whenever one is given and is not the empty string, whatever the active
\* session is and whether or not that id was ever bootstrapped; otherwise
\* (session_id omitted or empty) it is the active session id read at the time
\* of the call; otherwise the call fails with the no-active-session error.
C9_SessionResolution ==
    \A p \in Procs :
        LET f == call[p]
        IN  f.op \in SessionTools =>
               IF Resolved(p, f.args) = None
               THEN /\ f.status = "returned"
                    /\ f.ret = NoActiveSessionError
               ELSE \/ TurnedDownForKind(f)
                    \/ /\ HasEvent(f)
                       /\ f.ev.session_id = Resolved(p, f.args)
                       /\ f.status = "returned" =>
                             /\ \E i \in WholeLines : Lines[i].ev = f.ev
                             /\ IF f.op = "start_thread"
                                THEN f.ret.session_id = Resolved(p, f.args)
                                     /\ f.ret.event = f.ev
                                ELSE f.ret = f.ev

\* an explicit id that was never bootstrapped, used while another session is
\* active
C9_Witness ==
    \E p \in Procs :
        /\ call[p].op \in SessionTools
        /\ call[p].args.session_id = "sess_ext"
        /\ _ACTIVE_SESSION_ID[p] \notin {None, "sess_ext"}
        /\ "sess_ext" \notin DOMAIN _PRIVATE_CTX[p]
        /\ call[p].status = "returned"
        /\ HasEvent(call[p])
        /\ call[p].ev.session_id = "sess_ext"
        /\ \E i \in WholeLines : Lines[i].ev = call[p].ev

\* C10 (as claimed): the active-session pointer is null until a
\* bootstrap_session runs; every bootstrap_session makes the session id it
\* generates the active one; no other step changes the pointer or the
\* private-context table; once set, the pointer is never null again.
C10_LastBootstrapWins ==
    /\ \A p \in Procs : _ACTIVE_SESSION_ID[p] = None
    /\ [][\A p \in Procs :
             /\ (Invokes(p) /\ call'[p].op = "bootstrap_session") =>
                    _ACTIVE_SESSION_ID'[p] = SessIds[call'[p].n]
             /\ ~(Invokes(p) /\ call'[p].op = "bootstrap_session") =>
                    /\ _ACTIVE_SESSION_ID'[p] = _ACTIVE_SESSION_ID[p]
                    /\ _PRIVATE_CTX'[p] = _PRIVATE_CTX[p]
             /\ _ACTIVE_SESSION_ID[p] # None => _ACTIVE_SESSION_ID'[p] # None]_vars

\* the private context bootstrap_session is to use: what the source holds, the
\* fixed fallback where loading it failed
LoadedCtx(src) == IF src.state = "object" THEN src.content ELSE FallbackCtx
\* the names a caller listed in expose
Named(expose) == IF expose = NoneSeq THEN {} ELSE SeqToSet(expose)

\* C11 (as claimed): the mapping bootstrap_session returns has the generated
\* session id (the one written in the session-start event) as session_id, and
\* its other keys are exactly the names in expose that are keys of the loaded
\* private context, each with the private context's value.
C11_ExposedProjection ==
    \A p \in Procs :
        LET f == call[p]
        IN  (f.op = "bootstrap_session" /\ f.status = "returned") =>
               LET ctx == LoadedCtx(f.args.source)
               IN  /\ "session_id" \in DOMAIN f.ret
                   /\ f.ret.session_id = f.session_id
                   /\ f.ret.session_id = f.ev.session_id
                   /\ DOMAIN f.ret \ {"session_id"} =
                          (Named(f.args.expose) \cap DOMAIN ctx) \ {"session_id"}
                   /\ \A k \in DOMAIN f.ret \ {"session_id"} : f.ret[k] = ctx[k]

\* an event without the fields every call generates
Mask(ev) == [k \in DOMAIN ev \ {"id", "ts", "session_id"} |-> ev[k]]
StaticSessionStart ==
    [actor |-> "system", activity_id |-> None, thread_id |-> None, kind |-> "state",
     tags |-> <<"session_start">>, data |-> <<"meta", "started">>]
SessionStarts(evs) == {i \in 1..Len(evs) : evs[i].tags = <<"session_start">>}

\* C12: every session-start line is the static marker event but for id, ts and
\* session_id, whatever private context was loaded and whatever was exposed: so
\* two such lines differ in nothing else.  The event a bootstrap_session builds
\* is such an event, and it is the line the call has added when it returns.
C12_RedactedSessionStart ==
    LET evs == EventsOf(Lines)
    IN  /\ \A i \in SessionStarts(evs) : Mask(evs[i]) = StaticSessionStart
        /\ \A i, j \in SessionStarts(evs) : Mask(evs[i]) = Mask(evs[j])
        /\ \A p \in Procs :
              (call[p].op = "bootstrap_session" /\ HasEvent(call[p])) =>
                 /\ Mask(call[p].ev) = StaticSessionStart
                 /\ call[p].ev.session_id = call[p].session_id
                 /\ call[p].status = "returned" =>
                       (Len(evs) >= 1 /\ evs[Len(evs)] = call[p].ev)

\* two bootstraps of one process with different private contexts, the second
\* exposing a private field, and their two lines
C12_Witness ==
    LET evs == EventsOf(Lines)
    IN  \E p \in Procs :
           /\ Cardinality(SessionStarts(evs)) = 2
           /\ \E s1, s2 \in DOMAIN _PRIVATE_CTX[p] :
                 _PRIVATE_CTX[p][s1].user_id # _PRIVATE_CTX[p][s2].user_id
           /\ call[p].op = "bootstrap_session"
           /\ call[p].status = "returned"
           /\ "cohort" \in DOMAIN call[p].ret

\* C13 (as claimed): whatever the private-context source holds, a
\* bootstrap_session that is invoked gets a context (the fallback where loading
\* failed), stores it under a new session id and makes that id active.
C13_BootstrapNeverFailsOnContext ==
    [][\A p \in Procs :
          (Invokes(p) /\ call'[p].op = "bootstrap_session") =>
             /\ call'[p].status = "running"
             /\ _ACTIVE_SESSION_ID'[p] = call'[p].session_id
             /\ call'[p].session_id \in DOMAIN _PRIVATE_CTX'[p]
             /\ LET stored == _PRIVATE_CTX'[p][call'[p].session_id]
                    ctx == LoadedCtx(call'[p].args.source)
                IN  /\ DOMAIN stored = DOMAIN ctx \cup {"ts"}
                    /\ \A k \in DOMAIN ctx \ {"ts"} : stored[k] = ctx[k]]_vars

\* a filter argument that is given (neither absent nor empty)
Supplied(x) == x \notin {None, ""}
GivenTs(t) == t.z \notin {"None", "empty"}
\* the event satisfies every supplied filter
Satisfies(ev, a) ==
    /\ Supplied(a.session_id) => ev.session_id = a.session_id
    /\ Supplied(a.activity_id) => ev.activity_id = a.activity_id
    /\ Supplied(a.thread_id) => ev.thread_id = a.thread_id
    /\ a.kinds \notin {NoneSeq, <<>>} => ev.kind \in SeqToSet(a.kinds)
    /\ GivenTs(a.since) => a.since.secs <= ev.ts.secs
    /\ GivenTs(a.until) => ev.ts.secs <= a.until.secs
\* min(max(limit, 1), 2000)
ClaimedLimit(a) == Min(Max(a.limit, 1), 2000)
RECURSIVE Satisfying(_, _)
Satisfying(evs, a) ==
    IF evs = <<>> THEN <<>>
    ELSE IF Satisfies(Head(evs), a) THEN <<Head(evs)>> \o Satisfying(Tail(evs), a)
    ELSE Satisfying(Tail(evs), a)

\* C14: a list_events call whose matching events do not exceed the effective
\* limit returns events of the log only, and an event of the log is in the
\* result if and only if it satisfies every supplied filter (exact equality on
\* session_id, activity_id, thread_id; membership in kinds; since <= ts <=
\* until); absent and empty filters exclude nothing.
C14_FilterCorrectness ==
    \A p \in Procs :
        LET f == call[p]
        IN  (f.op = "list_events" /\ f.status = "returned") =>
               LET evs == EventsOf(Lines)
                   got == SeqToSet(f.ret)
               IN  Len(Satisfying(evs, f.args)) <= ClaimedLimit(f.args) =>
                      /\ got \subseteq SeqToSet(evs)
                      /\ \A i \in 1..Len(evs) :
                            evs[i] \in got <=> Satisfies(evs[i], f.args)

\* session, kinds and until all supplied; of three lines one is returned
C14_Witness ==
    \E p \in Procs :
        /\ call[p].op = "list_events"
        /\ call[p].status = "returned"
        /\ call[p].args.session_id = "sess_ext"
        /\ call[p].args.kinds = <<"note">>
        /\ call[p].args.until = now_iso(0)
        /\ Len(log) = 3
        /\ Len(call[p].ret) = 1
        /\ \E i \in 1..Len(log) : Lines[i].ev.kind = "note" /\ Lines[i].ev.ts.secs = 1

\* C15: for every limit, the result of list_events is the first
\* min(max(limit, 1), 2000) matching events of the log (all when there are
\* fewer), in file order.
C15_FirstMatchesInOrder ==
    \A p \in Procs :
        LET f == call[p]
        IN  (f.op = "list_events" /\ f.status = "returned") =>
               LET all == Satisfying(EventsOf(Lines), f.args)
               IN  /\ EffectiveLimit(f.args.limit) = ClaimedLimit(f.args)
                   /\ f.ret = SubSeq(all, 1, Min(Len(all), ClaimedLimit(f.args)))

\* kinds note, metric, note in the log; list_events(kinds=["note"]) returns the
\* first and the third line, in that order
C15_Witness ==
    \E p \in Procs :
        /\ call[p].op = "list_events"
        /\ call[p].status = "returned"
        /\ call[p].args.kinds = <<"note">>
        /\ call[p].args.limit = DefaultLimit
        /\ Len(log) = 3
        /\ Lines[1].ev.kind = "note" /\ Lines[2].ev.kind = "metric"
        /\ Lines[3].ev.kind = "note"
        /\ call[p].ret = <<Lines[1].ev, Lines[3].ev>>

\* C16: a list_events call changes neither the log nor the session registry;
\* when the log file does not exist it returns an empty result; and when the
\* same process's previous call was a list_events with the same filters, with
\* no write since, it returns what that call returned.
C16_ReadOnlyRepeatable ==
    [][\A p \in Procs :
          (Invokes(p) /\ call'[p].op = "list_events") =>
             /\ log' = log /\ logExists' = logExists /\ returned' = returned
             /\ lockHolder' = lockHolder
             /\ _ACTIVE_SESSION_ID' = _ACTIVE_SESSION_ID
             /\ _PRIVATE_CTX' = _PRIVATE_CTX
             /\ ~logExists => (call'[p].status = "returned" /\ call'[p].ret = <<>>)
             /\ (/\ call[p].op = "list_events"
                 /\ call[p].status = "returned"
                 /\ call[p].args = call'[p].args) =>
                    (call'[p].status = "returned" /\ call'[p].ret = call[p].ret)]_vars

\* the second of two calls on a log of three lines, returning two of them
C16_Witness ==
    \E p \in Procs :
        /\ call[p].op = "list_events"
        /\ call[p].status = "returned"
        /\ Len(log) = 3
        /\ call[p].n = Len(log) + 2
        /\ Len(call[p].ret) = 2

\* the thread ids of the lines of the file
ThreadIdsOf(evs) == {evs[i].thread_id : i \in 1..Len(evs)}

\* C17 (as claimed): start_thread called right after a bootstrap_session of the
\* same process has returned, with no session_id, uses the session id that
\* bootstrap returned and a thread id no line carries yet, and builds a state
\* event tagged thread_start with that session id, the given activity_id, the
\* new thread id and the caller's metadata (empty when omitted); when it
\* returns it has added exactly that event as one line and returns it with
\* the session id and the thread id.
C17_ThreadAfterBootstrap ==
    [][\A p \in Procs :
          /\ (/\ Invokes(p)
              /\ call[p].op = "bootstrap_session"
              /\ call[p].status = "returned"
              /\ call'[p].op = "start_thread"
              /\ call'[p].args.session_id = None) =>
                 /\ call'[p].status = "running"
                 /\ call'[p].sid = call[p].ret.session_id
                 /\ call'[p].thread_id \notin ThreadIdsOf(EventsOf(Lines))
                 /\ DOMAIN call'[p].ev = EventFields \ {"confidence", "supersedes"}
                 /\ Mask(call'[p].ev) =
                       [actor |-> "system", activity_id |-> call'[p].args.activity_id,
                        thread_id |-> call'[p].thread_id, kind |-> "state",
                        tags |-> <<"thread_start">>,
                        data |-> <<"metadata">> \o
                                 (IF call'[p].args.metadata = NoneSeq THEN <<>>
                                  ELSE call'[p].args.metadata)]
                 /\ call'[p].ev.session_id = call[p].ret.session_id
          /\ (/\ call[p].op = "start_thread"
              /\ call[p].status = "running"
              /\ call'[p].status = "returned") =>
                 /\ EventsOf(_iter_events(logExists', log')) =
                        Append(EventsOf(Lines), call[p].ev)
                 /\ call'[p].ret = [session_id |-> call[p].sid,
                                    thread_id |-> call[p].thread_id,
                                    event |-> call[p].ev]]_vars

\* process p is inside the open-write-close section
InSection(p) == pc[p] \in {"open", "tail"}

C19_SchemaInvariant ==
    LET evs == EventsOf(Lines)
    IN  \A i \in 1..Len(evs) :
           /\ {"kind", "session_id", "tags", "data"} \subseteq DOMAIN evs[i]
           /\ evs[i].kind \in ClaimedKinds
           /\ evs[i].session_id \notin {None, ""}
           /\ evs[i].tags # NoneSeq
           /\ evs[i].data # NoneSeq

\* a session_start line of session sid
HasSessionStart(evs, sid) ==
    \E i \in 1..Len(evs) :
        evs[i].session_id = sid /\ evs[i].tags = <<"session_start">>
BootstrapRunning(p) == call[p].op = "bootstrap_session" /\ call[p].status = "running"

\* C20 (as claimed): while no bootstrap_session is mid-execution, an active
\* session has its session_start line in the log; and a bootstrap_session that
\* fails leaves the active-session pointer and the private-context table as
\* they were before the call.
C20_RegistryMatchesLog ==
    /\ [](\A p \in Procs :
             (~BootstrapRunning(p) /\ _ACTIVE_SESSION_ID[p] # None) =>
                 HasSessionStart(EventsOf(Lines), _ACTIVE_SESSION_ID[p]))
    /\ [][\A p \in Procs :
             (BootstrapRunning(p) /\ call'[p].status = "raised") =>
                 /\ _ACTIVE_SESSION_ID'[p] # call[p].session_id
                 /\ call[p].session_id \notin DOMAIN _PRIVATE_CTX'[p]]_vars

====
